---- MODULE Spec2Model ----
(***************************************************************************)
(* Model of the matching engine of src/script.js, the checker for the      *)
(* regular expression [(a+b)*aa(b+ab)(aa+bb)*]*.                           *)
(*                                                                         *)
(* Strings are sequences of one-character strings; positions are 0-based   *)
(* as in the JavaScript source.  The pure functions of the source are      *)
(* operators of the same name taking the configuration as first argument   *)
(* (the source reads the global REGEX_CONFIG).  The same code is modelled  *)
(* a second time as a step machine (one activation per process) for the    *)
(* claims about termination, frame conditions and interleaving.  demo is   *)
(* the position and the saved values of the demonstration script that runs *)
(* when the file is loaded.                                                *)
(***************************************************************************)
EXTENDS Integers, Sequences, FiniteSets, TLC

VARIABLES config, input, call, demo

vars == <<config, input, call, demo>>

(***************************************************************************)
(* Bounds of the model.                                                    *)
(***************************************************************************)
\* longest input over {a,b} given to an atomic matchPattern call under the default tokens
MaxLen == 8
\* longest input over {a,b} under the other token collections
MaxLenVar == 4
\* longest input that may hold a character outside {a,b}
MaxLenInvalid == 2
\* longest input of a call that is run step by step
MaxLenStep == 5
\* longest input of a call that is run step by step under fairness
MaxLenTerm == 5
\* longest input of two interleaved calls
MaxLenConc == 3
\* longest input of a call under an edited token configuration
MaxLenTokens == 4
\* longest input of a call with REQUIRED_SEQUENCE given as a string
MaxLenFormat == 5
\* longest string handed to a single function of the engine
MaxLenFn == 4
\* longest string handed to a single segment matcher
MaxLenSegment == 4
\* longest of the two strings that are matched alone and concatenated
MaxLenConcat == 5

Procs == {1, 2}

Chars == {"a", "b", "c"}

AB == {"a", "b"}

RECURSIVE StringsOver(_, _)
\* all strings over the character set cs of length exactly n
StringsOver(cs, n) ==
    IF n = 0 THEN {<<>>}
    ELSE {Append(s, c) : s \in StringsOver(cs, n - 1), c \in cs}

\* all strings over cs of length at most n
StringsUpTo(cs, n) == UNION {StringsOver(cs, k) : k \in 0..n}

Min(a, b) == IF a < b THEN a ELSE b

Max(a, b) == IF a > b THEN a ELSE b

(***************************************************************************)
(* REGEX_CONFIG                                                            *)
(***************************************************************************)
\* the configuration object as shipped
REGEX_CONFIG ==
    [ALPHABET             |-> <<"a", "b">>,
     REQUIRED_SEQUENCE    |-> << <<"a", "a">> >>,
     ALTERNATIVE_OPTIONS  |-> << <<"b">>, <<"a", "b">> >>,
     REPEATABLE_SEQUENCES |-> << <<"a", "a">>, <<"b", "b">> >>,
     ALPHABET_STAR        |-> TRUE,
     REPEATABLE_STAR      |-> TRUE,
     PATTERN_STAR         |-> TRUE]

\* the shipped tokens under each of the eight STAR_CONFIG combinations
starConfigurations ==
    {[REGEX_CONFIG EXCEPT !.ALPHABET_STAR = x, !.REPEATABLE_STAR = y, !.PATTERN_STAR = z] :
        x \in BOOLEAN, y \in BOOLEAN, z \in BOOLEAN}

\* the token collections the empty-array demo installs, one after the other
emptyArrayTokens ==
    {[REGEX_CONFIG EXCEPT !.ALPHABET = <<>>],
     [REGEX_CONFIG EXCEPT !.REQUIRED_SEQUENCE = <<>>],
     [REGEX_CONFIG EXCEPT !.ALTERNATIVE_OPTIONS = <<>>],
     [REGEX_CONFIG EXCEPT !.ALTERNATIVE_OPTIONS = << <<"b">> >>, !.REPEATABLE_SEQUENCES = <<>>],
     [REGEX_CONFIG EXCEPT !.ALPHABET = <<>>, !.REQUIRED_SEQUENCE = <<>>,
                          !.ALTERNATIVE_OPTIONS = <<>>, !.REPEATABLE_SEQUENCES = <<>>]}

\* the empty-array token collections under each STAR_CONFIG combination
emptyArrayConfigurations ==
    {[c EXCEPT !.ALPHABET_STAR = x, !.REPEATABLE_STAR = y, !.PATTERN_STAR = z] :
        c \in emptyArrayTokens, x \in BOOLEAN, y \in BOOLEAN, z \in BOOLEAN}

\* malformed configurations: one collection holds the zero-length string
zeroLengthTokens ==
    {[REGEX_CONFIG EXCEPT !.REQUIRED_SEQUENCE = << <<>> >>],
     [REGEX_CONFIG EXCEPT !.ALTERNATIVE_OPTIONS = << <<"b">>, <<"a", "b">>, <<>> >>],
     [REGEX_CONFIG EXCEPT !.REPEATABLE_SEQUENCES = << <<>>, <<"a", "a">>, <<"b", "b">> >>]}

\* the malformed token collections with and without the star on the repeatable part
zeroLengthTokenConfigurations ==
    {[c EXCEPT !.REPEATABLE_STAR = y] : c \in zeroLengthTokens, y \in BOOLEAN}

\* degenerate configurations: no required and no alternative token, both segment
\* stars kept, with and without repeatable tokens and whole-pattern repetition
degenerateConfigurations ==
    {[REGEX_CONFIG EXCEPT !.REQUIRED_SEQUENCE = <<>>, !.ALTERNATIVE_OPTIONS = <<>>,
                          !.REPEATABLE_SEQUENCES = q, !.PATTERN_STAR = z] :
        q \in {REGEX_CONFIG.REPEATABLE_SEQUENCES, <<>>}, z \in BOOLEAN}

Configs ==
    starConfigurations \cup emptyArrayConfigurations \cup zeroLengthTokenConfigurations
        \cup degenerateConfigurations

defaultTokens(cfg) ==
    /\ cfg.ALPHABET = REGEX_CONFIG.ALPHABET
    /\ cfg.REQUIRED_SEQUENCE = REGEX_CONFIG.REQUIRED_SEQUENCE
    /\ cfg.ALTERNATIVE_OPTIONS = REGEX_CONFIG.ALTERNATIVE_OPTIONS
    /\ cfg.REPEATABLE_SEQUENCES = REGEX_CONFIG.REPEATABLE_SEQUENCES

(***************************************************************************)
(* JavaScript built-ins the source relies on                               *)
(***************************************************************************)
\* the value of Array.prototype.find when no element passes
undefined == <<"undefined">>

\* mutant of truthy: the empty string counts as a match
truthyEmptyString(v) == v # undefined

\* JavaScript truthiness of a find result: undefined and "" are falsy
truthy(v) == v # undefined /\ v # <<>>

Range(seq) == {seq[i] : i \in 1..Len(seq)}

\* Math.min(...tokens.map(t => t.length)) for a non-empty array
minTokenLength(tokens) ==
    CHOOSE n \in {Len(t) : t \in Range(tokens)} :
        \A m \in {Len(t) : t \in Range(tokens)} : n <= m

\* Math.max(...tokens.map(t => t.length)), 0 for an empty array
maxTokenLength(tokens) ==
    IF tokens = <<>> THEN 0
    ELSE CHOOSE n \in {Len(t) : t \in Range(tokens)} :
            \A m \in {Len(t) : t \in Range(tokens)} : n >= m

\* Array.prototype.find, given the elements that pass its test, in array order: the
\* first of them, or undefined
find(passing) == IF passing = <<>> THEN undefined ELSE Head(passing)

\* Array.from({length: n}, (_, i) => first + i); a negative length gives []
arrayFrom(n, first) == [i \in 1..Max(n, 0) |-> first + i - 1]

\* str.substring(start, end): both offsets clamped to [0, length], swapped if start > end
getSubstring(str, start, end) ==
    LET s == Min(Max(start, 0), Len(str))
        e == Min(Max(end, 0), Len(str))
    IN  SubSeq(str, Min(s, e) + 1, Max(s, e))

RECURSIVE tokensOfLengthDown(_, _)
\* the tokens of length n, then those of length n - 1, ... each group in array order
tokensOfLengthDown(tokens, n) ==
    IF n < 0 THEN <<>>
    ELSE SelectSeq(tokens, LAMBDA t : Len(t) = n) \o tokensOfLengthDown(tokens, n - 1)

\* mutant of sortLongestFirst: the tokens stay in array order
sortSkipped(tokens) == tokens

\* [...tokens].sort((a, b) => b.length - a.length): a stable sort, longest first
sortLongestFirst(tokens) == tokensOfLengthDown(tokens, maxTokenLength(tokens))

\* a JavaScript string held where an array of tokens is expected (REQUIRED_SEQUENCE may
\* be configured as 'aa'): the characters x behind a mark no token array starts with
jsString(x) == << <<"string">>, x >>

\* Array.isArray(v) for a value that is an array of tokens or a jsString
isArray(v) == ~(Len(v) = 2 /\ v[1] = <<"string">>)

\* the characters of a jsString
stringValue(v) == v[2]

(***************************************************************************)
(* The functions of the matching engine                                    *)
(***************************************************************************)
\* mutant of requiredSequences: a string is spread into its characters, [...x]
requiredSequencesSpread(cfg) ==
    IF isArray(cfg.REQUIRED_SEQUENCE) THEN cfg.REQUIRED_SEQUENCE
    ELSE [i \in 1..Len(stringValue(cfg.REQUIRED_SEQUENCE)) |->
            <<stringValue(cfg.REQUIRED_SEQUENCE)[i]>>]

\* Array.isArray(REQUIRED_SEQUENCE) ? REQUIRED_SEQUENCE : [REQUIRED_SEQUENCE]
requiredSequences(cfg) ==
    IF isArray(cfg.REQUIRED_SEQUENCE) THEN cfg.REQUIRED_SEQUENCE
    ELSE <<stringValue(cfg.REQUIRED_SEQUENCE)>>

\* mutant of getMinPatternLength: the result is not raised to 1
getMinPatternLengthNoFloor(cfg) ==
    (IF ~cfg.ALPHABET_STAR THEN 1 ELSE 0)
        + (IF Len(requiredSequences(cfg)) > 0 THEN minTokenLength(requiredSequences(cfg)) ELSE 0)
        + (IF Len(cfg.ALTERNATIVE_OPTIONS) > 0 THEN minTokenLength(cfg.ALTERNATIVE_OPTIONS) ELSE 0)
        + (IF ~cfg.REPEATABLE_STAR /\ Len(cfg.REPEATABLE_SEQUENCES) > 0
           THEN minTokenLength(cfg.REPEATABLE_SEQUENCES) ELSE 0)

getMinPatternLength(cfg) ==
    LET alphabetPart == IF ~cfg.ALPHABET_STAR THEN 1 ELSE 0
        requiredPart == IF Len(requiredSequences(cfg)) > 0
                        THEN minTokenLength(requiredSequences(cfg)) ELSE 0
        alternativePart == IF Len(cfg.ALTERNATIVE_OPTIONS) > 0
                           THEN minTokenLength(cfg.ALTERNATIVE_OPTIONS) ELSE 0
        repeatablePart == IF ~cfg.REPEATABLE_STAR /\ Len(cfg.REPEATABLE_SEQUENCES) > 0
                          THEN minTokenLength(cfg.REPEATABLE_SEQUENCES) ELSE 0
    IN  Max(alphabetPart + requiredPart + alternativePart + repeatablePart, 1)

isValidAlphabetChar(cfg, char) ==
    IF Len(cfg.ALPHABET) = 0 THEN FALSE
    ELSE char \in Range(cfg.ALPHABET)

\* char is here the one-character (or empty) string a substring call returned
isValidAlphabetString(cfg, char) ==
    IF Len(cfg.ALPHABET) = 0 THEN FALSE
    ELSE Len(char) = 1 /\ char[1] \in Range(cfg.ALPHABET)

\* mutant of validateInput: Array.some in place of Array.every
validateInputSome(cfg, str) ==
    IF Len(cfg.ALPHABET) = 0 THEN Len(str) = 0
    ELSE \E i \in 1..Len(str) : isValidAlphabetChar(cfg, str[i])

\* mutant of validateInput: the input is not validated
validateInputSkipped(cfg, str) == TRUE

validateInput(cfg, str) ==
    IF Len(cfg.ALPHABET) = 0 THEN Len(str) = 0
    ELSE \A i \in 1..Len(str) : isValidAlphabetChar(cfg, str[i])

canMatchAlphabetStar(cfg, str, start, length) ==
    IF ~cfg.ALPHABET_STAR
    THEN IF length # 1 THEN FALSE
         ELSE isValidAlphabetString(cfg, getSubstring(str, start, start + 1))
    ELSE IF length = 0 THEN TRUE
         ELSE LET substring == getSubstring(str, start, start + length)
              IN  \A i \in 1..Len(substring) : isValidAlphabetChar(cfg, substring[i])

\* the first of the tokens, sorted longest first, that occurs literally at pos
longestTokenAt(tokens, str, pos) ==
    find(SelectSeq(sortLongestFirst(tokens),
                   LAMBDA sequence : getSubstring(str, pos, pos + Len(sequence)) = sequence))

canMatchRequiredSequence(cfg, str, pos) ==
    IF Len(requiredSequences(cfg)) = 0 THEN pos
    ELSE LET matchedSequence == longestTokenAt(requiredSequences(cfg), str, pos)
         IN  IF truthy(matchedSequence) THEN pos + Len(matchedSequence) ELSE -1

canMatchAlternatives(cfg, str, pos) ==
    IF Len(cfg.ALTERNATIVE_OPTIONS) = 0 THEN pos
    ELSE LET matchedOption == longestTokenAt(cfg.ALTERNATIVE_OPTIONS, str, pos)
         IN  IF truthy(matchedOption) THEN pos + Len(matchedOption) ELSE -1

\* mutant of repeatableExactlyOne: the token need not end at end
repeatableExactlyOneAnyLength(cfg, str, pos, end) ==
    find(SelectSeq(sortLongestFirst(cfg.REPEATABLE_SEQUENCES),
                   LAMBDA sequence :
                      getSubstring(str, pos, pos + Len(sequence)) = sequence)) # undefined

\* the no-star branch of canMatchRepeatableSequences: one token spanning pos..end
repeatableExactlyOne(cfg, str, pos, end) ==
    find(SelectSeq(sortLongestFirst(cfg.REPEATABLE_SEQUENCES),
                   LAMBDA sequence :
                      /\ pos + Len(sequence) = end
                      /\ getSubstring(str, pos, pos + Len(sequence)) = sequence)) # undefined

\* the token one iteration of the while loop of canMatchRepeatableSequences finds
repeatableAt(cfg, str, pos, end) ==
    find(SelectSeq(sortLongestFirst(cfg.REPEATABLE_SEQUENCES),
                   LAMBDA sequence :
                      /\ ~(pos + Len(sequence) > end)
                      /\ getSubstring(str, pos, pos + Len(sequence)) = sequence))

\* mutant of advance: the matched token is not consumed
advanceNone(pos, matchedSequence) == pos

\* pos += matchedSequence.length
advance(pos, matchedSequence) == pos + Len(matchedSequence)

RECURSIVE repeatableLoop(_, _, _, _)
\* the while loop of canMatchRepeatableSequences, from position pos
repeatableLoop(cfg, str, pos, end) ==
    IF pos < end
    THEN LET matchedSequence == repeatableAt(cfg, str, pos, end)
         IN  IF truthy(matchedSequence)
             THEN repeatableLoop(cfg, str, advance(pos, matchedSequence), end)
             ELSE FALSE
    ELSE TRUE

\* mutant of canMatchRepeatableSequences: with no token any rest is accepted
canMatchRepeatableSequencesAnyRest(cfg, str, start, end) ==
    IF Len(cfg.REPEATABLE_SEQUENCES) = 0 THEN TRUE
    ELSE IF ~cfg.REPEATABLE_STAR THEN repeatableExactlyOne(cfg, str, start, end)
    ELSE repeatableLoop(cfg, str, start, end)

canMatchRepeatableSequences(cfg, str, start, end) ==
    IF Len(cfg.REPEATABLE_SEQUENCES) = 0 THEN start = end
    ELSE IF ~cfg.REPEATABLE_STAR THEN repeatableExactlyOne(cfg, str, start, end)
    ELSE repeatableLoop(cfg, str, start, end)

\* mutant of alphabetLengthRange: the range misses its last length
alphabetLengthRangeShort(cfg, patternLength) ==
    IF ~cfg.ALPHABET_STAR THEN <<1>>
    ELSE arrayFrom(Max(0, patternLength - getMinPatternLength(cfg)), 0)

\* the lengths canMatchSinglePatternExactly tries for the alphabet part, in order
alphabetLengthRange(cfg, patternLength) ==
    IF ~cfg.ALPHABET_STAR THEN <<1>>
    ELSE LET minLength == getMinPatternLength(cfg)
             minOtherParts == minLength - (IF cfg.ALPHABET_STAR THEN 0 ELSE 1)
             maxAlphabetLength == Max(0, patternLength - minOtherParts)
         IN  arrayFrom(maxAlphabetLength + 1, 0)

\* steps 1 to 3 of one alphabet length: the position after the alternatives, or -1
afterAlternativesFrom(cfg, str, start, alphabetLength) ==
    IF ~canMatchAlphabetStar(cfg, str, start, alphabetLength) THEN -1
    ELSE LET afterRequired == canMatchRequiredSequence(cfg, str, start + alphabetLength)
         IN  IF afterRequired = -1 THEN -1
             ELSE canMatchAlternatives(cfg, str, afterRequired)

\* the callback of alphabetLengthRange.some in canMatchSinglePatternExactly
tryAlphabetLength(cfg, str, start, end, alphabetLength) ==
    LET afterAlternatives == afterAlternativesFrom(cfg, str, start, alphabetLength)
    IN  IF afterAlternatives = -1 THEN FALSE
        ELSE canMatchRepeatableSequences(cfg, str, afterAlternatives, end)

canMatchSinglePatternExactly(cfg, str, start, end) ==
    LET patternLength == end - start
        minLength == getMinPatternLength(cfg)
    IN  IF patternLength < minLength THEN FALSE
        ELSE \E alphabetLength \in Range(alphabetLengthRange(cfg, patternLength)) :
                tryAlphabetLength(cfg, str, start, end, alphabetLength)

\* mutant of possibleEndPositions: every end position after startPos is tried
possibleEndPositionsAll(cfg, str, startPos) ==
    arrayFrom(Len(str) - startPos, startPos + 1)

\* mutant of possibleEndPositions: the shortest slice is not tried
possibleEndPositionsShort(cfg, str, startPos) ==
    arrayFrom(Len(str) - startPos - getMinPatternLength(cfg),
              startPos + getMinPatternLength(cfg) + 1)

\* the end positions matchPatternsRecursively tries from startPos, in order
possibleEndPositions(cfg, str, startPos) ==
    LET minPatternLength == getMinPatternLength(cfg)
    IN  arrayFrom(Len(str) - startPos - minPatternLength + 1, startPos + minPatternLength)

RECURSIVE matchPatternsRecursively(_, _, _)
matchPatternsRecursively(cfg, str, startPos) ==
    IF startPos >= Len(str) THEN TRUE
    ELSE \E endPos \in Range(possibleEndPositions(cfg, str, startPos)) :
            /\ canMatchSinglePatternExactly(cfg, str, startPos, endPos)
            /\ matchPatternsRecursively(cfg, str, endPos)

\* mutant of matchPattern: the test of PATTERN_STAR is inverted
matchPatternInverted(cfg, inputStr) ==
    IF ~validateInput(cfg, inputStr) THEN FALSE
    ELSE IF cfg.PATTERN_STAR
         THEN IF Len(inputStr) = 0 THEN FALSE
              ELSE canMatchSinglePatternExactly(cfg, inputStr, 0, Len(inputStr))
         ELSE IF Len(inputStr) = 0 THEN TRUE
              ELSE matchPatternsRecursively(cfg, inputStr, 0)

matchPattern(cfg, inputStr) ==
    IF ~validateInput(cfg, inputStr) THEN FALSE
    ELSE IF ~cfg.PATTERN_STAR
         THEN IF Len(inputStr) = 0 THEN FALSE
              ELSE canMatchSinglePatternExactly(cfg, inputStr, 0, Len(inputStr))
         ELSE IF Len(inputStr) = 0 THEN TRUE
              ELSE matchPatternsRecursively(cfg, inputStr, 0)

(***************************************************************************)
(* State: the configuration, the input of each call and each call's        *)
(* activation (its position in the code, its locals, its result).          *)
(***************************************************************************)
\* a call that has not been entered yet
newCall ==
    [pc |-> "matchPattern", stack |-> <<>>, start |-> 0, end |-> 0, alphaIdx |-> 0,
     repStart |-> 0, pos |-> 0, ret |-> FALSE, result |-> FALSE]

\* the demonstration script before its first statement: nothing saved yet
newDemo ==
    [pc |-> "load", originalPatternStar |-> undefined, originalRequired |-> undefined,
     originalConfig |-> undefined, originalStarConfig |-> undefined, index |-> 0,
     atLoad |-> undefined, atBlockStart |-> undefined]

\* the strings runTestSuite expects to be accepted
testCasesValid ==
    {<<>>,
     <<"a", "a", "b">>,
     <<"a", "a", "a", "b">>,
     <<"b", "a", "a", "b">>,
     <<"a", "a", "b", "a">>,
     <<"b", "a", "a", "b", "a">>,
     <<"a", "a", "b", "a", "a", "a">>,
     <<"a", "a", "b", "a", "a", "b">>,
     <<"a", "a", "b", "a", "a", "b", "b">>,
     <<"a", "a", "b", "a", "a", "b", "b", "a", "a", "b", "b">>}

\* the strings runTestSuite expects to be rejected
testCasesInvalid ==
    {<<"a", "b">>, <<"a", "a">>, <<"a", "b", "b">>, <<"a", "b", "a">>, <<"b", "a", "b">>}

\* the inputs given to an atomic call under configuration cfg
Inputs(cfg) ==
    StringsUpTo(AB, IF defaultTokens(cfg) THEN MaxLen ELSE MaxLenVar)
        \cup StringsUpTo(Chars, MaxLenInvalid)
        \cup testCasesValid \cup testCasesInvalid

Init ==
    /\ config \in Configs
    /\ \E s \in Inputs(config) : input = [p \in Procs |-> IF p = 1 THEN s ELSE <<>>]
    /\ call = [p \in Procs |-> newCall]
    /\ demo = newDemo

\* mutant of configAfterSort: the token arrays are sorted in place
configSortedInPlace(cfg) ==
    [cfg EXCEPT !.REQUIRED_SEQUENCE = sortLongestFirst(@),
                !.ALTERNATIVE_OPTIONS = sortLongestFirst(@),
                !.REPEATABLE_SEQUENCES = sortLongestFirst(@)]

\* REGEX_CONFIG after a matcher has sorted its tokens: [...tokens].sort(...) sorts a
\* copy, the configured arrays keep their order
configAfterSort(cfg) == cfg

\* one whole call of matchPattern on the input of process 1
MatchCall ==
    /\ call[1].pc = "matchPattern"
    /\ call' = [call EXCEPT ![1].pc = "done",
                            ![1].result = matchPattern(config, input[1])]
    /\ config' = configAfterSort(config)
    /\ UNCHANGED <<input, demo>>

Next == MatchCall

Spec == Init /\ [][Next]_vars

done == call[1].pc = "done"

result == call[1].result

(***************************************************************************)
(* The same code, one step at a time.  call[p] is the activation of the    *)
(* call process p makes: pc is the place in the code, stack holds one      *)
(* frame per active matchPatternsRecursively (its startPos and the index   *)
(* into possibleEndPositions it is trying), start/end are the arguments of *)
(* the running canMatchSinglePatternExactly, alphaIdx the index into       *)
(* alphabetLengthRange it is trying, repStart the start argument and pos   *)
(* the cursor of the running canMatchRepeatableSequences, and ret the      *)
(* value a callee hands back.                                              *)
(***************************************************************************)
\* mutant of localsOf: the locals are module-level variables, one copy for all calls
localsShared(p) == 1

\* where the locals of the call of process p live: every call has bindings of its own
\* (const/let and parameters are created per activation)
localsOf(p) == p

\* the activation of a call that returned value
returned(value) == [newCall EXCEPT !.pc = "done", !.result = value]

top(c) == c.stack[Len(c.stack)]

\* c with the index of its topmost frame set to idx
withEndIdx(c, idx) == [c EXCEPT !.stack[Len(c.stack)].endIdx = idx]

\* matchPattern up to its first call or its return
Enter(p) ==
    LET c == call[localsOf(p)]
        inputStr == input[p]
    IN  /\ c.pc = "matchPattern"
        /\ call' = [call EXCEPT ![localsOf(p)] =
                IF ~validateInput(config, inputStr) THEN returned(FALSE)
                ELSE IF ~config.PATTERN_STAR
                     THEN IF Len(inputStr) = 0 THEN returned(FALSE)
                          ELSE [c EXCEPT !.pc = "single", !.start = 0, !.end = Len(inputStr)]
                     ELSE IF Len(inputStr) = 0 THEN returned(TRUE)
                          ELSE [c EXCEPT !.pc = "recursive",
                                         !.stack = <<[startPos |-> 0, endIdx |-> 0]>>]]
        /\ UNCHANGED <<config, input, demo>>

\* matchPatternsRecursively: the base case, else the first end position
RecEnter(p) ==
    LET c == call[localsOf(p)]
    IN  /\ c.pc = "recursive"
        /\ call' = [call EXCEPT ![localsOf(p)] =
                IF top(c).startPos >= Len(input[p])
                THEN [c EXCEPT !.pc = "recReturn", !.ret = TRUE]
                ELSE [withEndIdx(c, 1) EXCEPT !.pc = "tryEnd"]]
        /\ UNCHANGED <<config, input, demo>>

\* possibleEndPositions.some: call canMatchSinglePatternExactly on the next end
\* position, or return false when none is left
TryEnd(p) ==
    LET c == call[localsOf(p)]
        ends == possibleEndPositions(config, input[p], top(c).startPos)
    IN  /\ c.pc = "tryEnd"
        /\ call' = [call EXCEPT ![localsOf(p)] =
                IF top(c).endIdx > Len(ends)
                THEN [c EXCEPT !.pc = "recReturn", !.ret = FALSE]
                ELSE [c EXCEPT !.pc = "single", !.start = top(c).startPos,
                               !.end = ends[top(c).endIdx]]]
        /\ UNCHANGED <<config, input, demo>>

\* canMatchSinglePatternExactly: the minimum-length test
SingleEnter(p) ==
    LET c == call[localsOf(p)]
    IN  /\ c.pc = "single"
        /\ call' = [call EXCEPT ![localsOf(p)] =
                IF c.end - c.start < getMinPatternLength(config)
                THEN [c EXCEPT !.pc = "singleReturn", !.ret = FALSE]
                ELSE [c EXCEPT !.pc = "tryAlpha", !.alphaIdx = 1]]
        /\ UNCHANGED <<config, input, demo>>

\* alphabetLengthRange.some: steps 1 to 3 for the next alphabet length, then the
\* call of canMatchRepeatableSequences; false when no length is left
TryAlpha(p) ==
    LET c == call[localsOf(p)]
        range == alphabetLengthRange(config, c.end - c.start)
        after == afterAlternativesFrom(config, input[p], c.start, range[c.alphaIdx])
    IN  /\ c.pc = "tryAlpha"
        /\ call' = [call EXCEPT ![localsOf(p)] =
                IF c.alphaIdx > Len(range)
                THEN [c EXCEPT !.pc = "singleReturn", !.ret = FALSE]
                ELSE IF after = -1 THEN [c EXCEPT !.alphaIdx = c.alphaIdx + 1]
                ELSE [c EXCEPT !.pc = "repeatable", !.repStart = after, !.pos = after]]
        /\ config' = IF c.alphaIdx > Len(range) THEN config ELSE configAfterSort(config)
        /\ UNCHANGED <<input, demo>>

\* canMatchRepeatableSequences up to its while loop
RepEnter(p) ==
    LET c == call[localsOf(p)]
    IN  /\ c.pc = "repeatable"
        /\ call' = [call EXCEPT ![localsOf(p)] =
                IF Len(config.REPEATABLE_SEQUENCES) = 0
                THEN [c EXCEPT !.pc = "repReturn", !.ret = (c.pos = c.end)]
                ELSE IF ~config.REPEATABLE_STAR
                THEN [c EXCEPT !.pc = "repReturn",
                               !.ret = repeatableExactlyOne(config, input[p], c.pos, c.end)]
                ELSE [c EXCEPT !.pc = "loop"]]
        /\ config' = IF Len(config.REPEATABLE_SEQUENCES) = 0 THEN config
                     ELSE configAfterSort(config)
        /\ UNCHANGED <<input, demo>>

\* one test of the while condition of canMatchRepeatableSequences and, when it
\* holds, one iteration of the loop body
Loop(p) ==
    LET c == call[localsOf(p)]
        matchedSequence == repeatableAt(config, input[p], c.pos, c.end)
    IN  /\ c.pc = "loop"
        /\ call' = [call EXCEPT ![localsOf(p)] =
                IF c.pos < c.end
                THEN IF truthy(matchedSequence)
                     THEN [c EXCEPT !.pos = advance(c.pos, matchedSequence)]
                     ELSE [c EXCEPT !.pc = "repReturn", !.ret = FALSE]
                ELSE [c EXCEPT !.pc = "repReturn", !.ret = TRUE]]
        /\ UNCHANGED <<config, input, demo>>

\* canMatchRepeatableSequences returns into the some callback of
\* canMatchSinglePatternExactly: true ends the some, false moves to the next length
RepReturn(p) ==
    LET c == call[localsOf(p)]
    IN  /\ c.pc = "repReturn"
        /\ call' = [call EXCEPT ![localsOf(p)] =
                IF c.ret THEN [c EXCEPT !.pc = "singleReturn"]
                ELSE [c EXCEPT !.pc = "tryAlpha", !.alphaIdx = c.alphaIdx + 1]]
        /\ UNCHANGED <<config, input, demo>>

\* mutant of nextStartPos: the recursive call starts one character early
nextStartPosBehind(endPos) == endPos - 1

\* the cursor of the recursive call matchPatternsRecursively(str, endPos)
nextStartPos(endPos) == endPos

\* canMatchSinglePatternExactly returns: to matchPattern (no frame), or into the some
\* callback of matchPatternsRecursively, which recurses on true and moves on on false
SingleReturn(p) ==
    LET c == call[localsOf(p)]
    IN  /\ c.pc = "singleReturn"
        /\ call' = [call EXCEPT ![localsOf(p)] =
                IF c.stack = <<>> THEN returned(c.ret)
                ELSE IF c.ret
                THEN [c EXCEPT !.pc = "recursive",
                               !.stack = Append(c.stack, [startPos |-> nextStartPos(c.end),
                                                          endIdx |-> 0])]
                ELSE [withEndIdx(c, top(c).endIdx + 1) EXCEPT !.pc = "tryEnd"]]
        /\ UNCHANGED <<config, input, demo>>

\* matchPatternsRecursively returns: to matchPattern (last frame), or into the some
\* callback of its caller, which returns true on true and moves on on false
RecReturn(p) ==
    LET c == call[localsOf(p)]
        popped == [c EXCEPT !.stack = SubSeq(c.stack, 1, Len(c.stack) - 1)]
    IN  /\ c.pc = "recReturn"
        /\ call' = [call EXCEPT ![localsOf(p)] =
                IF popped.stack = <<>> THEN returned(c.ret)
                ELSE IF c.ret THEN popped
                ELSE [withEndIdx(popped, top(popped).endIdx + 1) EXCEPT !.pc = "tryEnd"]]
        /\ UNCHANGED <<config, input, demo>>

Step(p) ==
    \/ Enter(p)
    \/ RecEnter(p)
    \/ TryEnd(p)
    \/ SingleEnter(p)
    \/ TryAlpha(p)
    \/ RepEnter(p)
    \/ Loop(p)
    \/ RepReturn(p)
    \/ SingleReturn(p)
    \/ RecReturn(p)

\* the inputs of a call that is run step by step
StepInputs == StringsUpTo(AB, MaxLenStep) \cup StringsUpTo(Chars, MaxLenInvalid)

InitStep ==
    /\ config \in Configs
    /\ \E s \in StepInputs : input = [p \in Procs |-> IF p = 1 THEN s ELSE <<>>]
    /\ call = [p \in Procs |-> newCall]
    /\ demo = newDemo

NextStep == Step(1)

\* one call, step by step
SpecStep == InitStep /\ [][NextStep]_vars

InitTerm ==
    /\ config \in Configs
    /\ \E s \in StringsUpTo(AB, MaxLenTerm) \cup StringsUpTo(Chars, MaxLenInvalid) :
          input = [p \in Procs |-> IF p = 1 THEN s ELSE <<>>]
    /\ call = [p \in Procs |-> newCall]
    /\ demo = newDemo

\* one call run to completion: the engine is synchronous and single-threaded, a
\* call that can take a step takes it
SpecTerm == InitTerm /\ [][NextStep]_vars /\ WF_vars(NextStep)

\* the inputs of the STAR_CONFIG demo
demoInputs ==
    {<<>>,
     <<"a", "a", "b">>,
     <<"a", "b">>,
     <<"a", "a", "b", "a", "a", "b">>,
     <<"b", "a", "a", "b", "a", "a">>}

\* the configurations under which two calls are interleaved
ConcConfigs ==
    {REGEX_CONFIG,
     [REGEX_CONFIG EXCEPT !.ALPHABET_STAR = FALSE, !.REPEATABLE_STAR = FALSE],
     [REGEX_CONFIG EXCEPT !.REQUIRED_SEQUENCE = <<>>]}

ConcInputs == StringsUpTo(AB, MaxLenConc) \cup {<<"c">>}

InitConc ==
    /\ config \in ConcConfigs
    /\ \E s \in ConcInputs : \E t \in demoInputs :
          input = [p \in Procs |-> IF p = 1 THEN s ELSE t]
    /\ call = [p \in Procs |-> newCall]
    /\ demo = newDemo

NextConc == \E p \in Procs : Step(p)

\* two calls whose steps are interleaved in every order
SpecConc == InitConc /\ [][NextConc]_vars

(***************************************************************************)
(* The language of the regular expression, read off the expression itself  *)
(* (every split of the string is considered, no greedy choice).            *)
(***************************************************************************)
\* w is in (alphabet)* when the star is kept, one alphabet character otherwise
LangAlphabet(cfg, w) ==
    /\ \A i \in 1..Len(w) : w[i] \in Range(cfg.ALPHABET)
    /\ cfg.ALPHABET_STAR \/ Len(w) = 1

\* w is one of the tokens (the empty string when there is no token)
LangOneOf(tokens, w) ==
    IF tokens = <<>> THEN w = <<>> ELSE w \in Range(tokens)

RECURSIVE LangStarOf(_, _)
\* w is a concatenation of zero or more of the tokens
LangStarOf(tokens, w) ==
    \/ w = <<>>
    \/ \E t \in Range(tokens) :
          /\ Len(t) > 0
          /\ Len(t) <= Len(w)
          /\ SubSeq(w, 1, Len(t)) = t
          /\ LangStarOf(tokens, SubSeq(w, Len(t) + 1, Len(w)))

\* w is in (q1+...+qn)* when the star is kept, one of the tokens otherwise
LangRepeatable(cfg, w) ==
    IF cfg.REPEATABLE_STAR THEN LangStarOf(cfg.REPEATABLE_SEQUENCES, w)
    ELSE LangOneOf(cfg.REPEATABLE_SEQUENCES, w)

\* w is one occurrence of the inner pattern
LangInner(cfg, w) ==
    \E i \in 0..Len(w) : \E j \in i..Len(w) : \E k \in j..Len(w) :
        /\ LangAlphabet(cfg, SubSeq(w, 1, i))
        /\ LangOneOf(cfg.REQUIRED_SEQUENCE, SubSeq(w, i + 1, j))
        /\ LangOneOf(cfg.ALTERNATIVE_OPTIONS, SubSeq(w, j + 1, k))
        /\ LangRepeatable(cfg, SubSeq(w, k + 1, Len(w)))

RECURSIVE LangInnerStar(_, _)
\* w is a concatenation of zero or more occurrences of the inner pattern
LangInnerStar(cfg, w) ==
    \/ w = <<>>
    \/ \E n \in 1..Len(w) :
          /\ LangInner(cfg, SubSeq(w, 1, n))
          /\ LangInnerStar(cfg, SubSeq(w, n + 1, Len(w)))

\* w is in the language of the whole expression under the star flags of cfg
Language(cfg, w) ==
    IF cfg.PATTERN_STAR THEN LangInnerStar(cfg, w) ELSE LangInner(cfg, w)

(***************************************************************************)
(* Claims                                                                  *)
(***************************************************************************)
\* C1: under the shipped configuration matchPattern(s) is true exactly when s
\* is in the language of [(a+b)*aa(b+ab)(aa+bb)*]*; the strings "", "aab",
\* "aaab", "baab", "aabaab", "aabaabb", "aabaabbaabb" are accepted and "ab",
\* "aa", "abb", "aba", "bab" are rejected.
C1_DefaultLanguage ==
    (done /\ config = REGEX_CONFIG) =>
        /\ result = Language(config, input[1])
        /\ input[1] \in {<<>>, <<"a", "a", "b">>, <<"a", "a", "a", "b">>,
                         <<"b", "a", "a", "b">>, <<"a", "a", "b", "a", "a", "b">>,
                         <<"a", "a", "b", "a", "a", "b", "b">>,
                         <<"a", "a", "b", "a", "a", "b", "b", "a", "a", "b", "b">>}
              => result = TRUE
        /\ input[1] \in testCasesInvalid => result = FALSE

\* C1 witness: the longest string of the test suite has been accepted
C1_Witness ==
    /\ done
    /\ config = REGEX_CONFIG
    /\ input[1] = <<"a", "a", "b", "a", "a", "b", "b", "a", "a", "b", "b">>
    /\ result = TRUE

PatternStarOff == [REGEX_CONFIG EXCEPT !.PATTERN_STAR = FALSE]

\* C2 as stated: with PATTERN_STAR false on the shipped configuration,
\* matchPattern("aab") is true and matchPattern("aabaab") is false.
C2_Original ==
    (done /\ config = PatternStarOff) =>
        /\ input[1] = <<"a", "a", "b">> => result = TRUE
        /\ input[1] = <<"a", "a", "b", "a", "a", "b">> => result = FALSE

\* C2 amended: with PATTERN_STAR false on the shipped configuration,
\* matchPattern("aab") is true and matchPattern("aabaab") is true as well (it
\* is one repetition whose free run is "aab"); a string is accepted exactly
\* when it is one occurrence of the inner pattern.
C2_SingleRepetition ==
    (done /\ config = PatternStarOff) =>
        /\ input[1] = <<"a", "a", "b">> => result = TRUE
        /\ input[1] = <<"a", "a", "b", "a", "a", "b">> => result = TRUE
        /\ result = LangInner(config, input[1])

\* C2 witness: "aabaab" has been accepted with PATTERN_STAR false
C2_Witness ==
    /\ done
    /\ config = PatternStarOff
    /\ input[1] = <<"a", "a", "b", "a", "a", "b">>
    /\ result = TRUE

\* C3: for each of the eight star-flag combinations with the shipped tokens,
\* matchPattern(s) is true exactly when s is in the language of the expression
\* that keeps a star where its flag is true and asks for exactly one
\* occurrence where it is false.
C3_StarFlagLanguage ==
    (done /\ defaultTokens(config)) => result = Language(config, input[1])

\* every configured token has at least one character
AllTokensNonEmpty(cfg) ==
    \A t \in Range(cfg.REQUIRED_SEQUENCE) \cup Range(cfg.ALTERNATIVE_OPTIONS)
              \cup Range(cfg.REPEATABLE_SEQUENCES) : Len(t) > 0

\* C4: for a configuration whose tokens are all non-empty and an input made of
\* alphabet characters, matchPattern terminates: the call returns after finitely
\* many steps.  The call is sequential, so it returns only after every
\* activation of matchPatternsRecursively it entered has returned and every
\* greedy loop of canMatchRepeatableSequences it entered has been left.
C4_Terminates ==
    (AllTokensNonEmpty(config) /\ validateInput(config, input[1])) =>
        <>(call[1].pc = "done")

\* C4 witness: a call that recursed, backtracked and ran the greedy loop has returned
C4_Witness ==
    /\ call[1].pc = "done"
    /\ call[1].result = TRUE
    /\ config = REGEX_CONFIG
    /\ input[1] = <<"a", "a", "b", "a", "a">>

\* the cut points 0 = p0 < p1 < ... < pk = Len(str) given by the set cuts
CutPoints(str, cuts) == {0, Len(str)} \cup cuts

\* str splits at the cut points of cuts into slices that
\* canMatchSinglePatternExactly accepts
SlicesAccepted(cfg, str, cuts) ==
    \A a \in CutPoints(str, cuts) : \A b \in CutPoints(str, cuts) :
        (a < b /\ ~\E m \in CutPoints(str, cuts) : a < m /\ m < b)
            => canMatchSinglePatternExactly(cfg, str, a, b)

\* str has a segmentation the matcher accepts: one slice when PATTERN_STAR is
\* false, any number of slices otherwise
HasSegmentation(cfg, str) ==
    IF Len(str) = 0 THEN cfg.PATTERN_STAR
    ELSE IF ~cfg.PATTERN_STAR THEN SlicesAccepted(cfg, str, {})
    ELSE \E cuts \in SUBSET (1..(Len(str) - 1)) : SlicesAccepted(cfg, str, cuts)

\* the steps of a call that lie inside a segment matcher or the search around it
InMatcher(c) == c.pc \notin {"matchPattern", "done"}

C6_EmptyAlphabet ==
    (done /\ config.ALPHABET = <<>>) =>
        /\ input[1] # <<>> => ~validateInput(config, input[1])
        /\ config.PATTERN_STAR => (result = (input[1] = <<>>))

\* C6 witness: the empty string has been accepted under an empty alphabet
C6_Witness ==
    /\ done
    /\ config.ALPHABET = <<>>
    /\ config.REQUIRED_SEQUENCE # <<>>
    /\ config.PATTERN_STAR
    /\ input[1] = <<>>
    /\ result = TRUE

\* what the matcher matchPattern dispatches to says about the whole input
Dispatched(cfg, str) ==
    IF cfg.PATTERN_STAR THEN matchPatternsRecursively(cfg, str, 0)
    ELSE canMatchSinglePatternExactly(cfg, str, 0, Len(str))

\* C7 as stated: matchPattern("") is PATTERN_STAR; a non-empty string is decided
\* by canMatchSinglePatternExactly on [0, length) when PATTERN_STAR is false and
\* by matchPatternsRecursively when it is true.
C7_Original ==
    done =>
        /\ input[1] = <<>> => result = config.PATTERN_STAR
        /\ input[1] # <<>> => result = Dispatched(config, input[1])

\* C7 amended: matchPattern("") is PATTERN_STAR; a non-empty string that passes
\* validateInput is decided by canMatchSinglePatternExactly on [0, length) when
\* PATTERN_STAR is false and by matchPatternsRecursively when it is true; a
\* string that fails validateInput is rejected whatever those matchers say.
C7_DispatchAfterValidation ==
    done =>
        /\ input[1] = <<>> => result = config.PATTERN_STAR
        /\ (input[1] # <<>> /\ validateInput(config, input[1]))
              => result = Dispatched(config, input[1])
        /\ ~validateInput(config, input[1]) => result = FALSE

\* C7 witness: a string the single-repetition matcher accepts has been rejected
\* because it fails validation
C7_Witness ==
    /\ done
    /\ input[1] # <<>>
    /\ ~validateInput(config, input[1])
    /\ Dispatched(config, input[1])
    /\ result = FALSE

\* C9: no step of a matching call changes REGEX_CONFIG (alphabet, token
\* collections and their order, star flags) or the input string.
C9_ConfigUntouched == [][config' = config /\ input' = input]_vars

\* C9 witness: a call that sorted all three token collections has returned and
\* the configuration still holds the alternatives in their configured order
C9_Witness ==
    /\ call[1].pc = "done"
    /\ call[1].result = TRUE
    /\ input[1] = <<"b", "a", "a", "b">>
    /\ config = REGEX_CONFIG
    /\ config.ALTERNATIVE_OPTIONS # sortLongestFirst(config.ALTERNATIVE_OPTIONS)

\* C10: when the steps of two calls are interleaved and the configuration is
\* not changed meanwhile, each call returns what it returns when run alone.
C10_InterleavedCallsAgree ==
    \A p \in Procs :
        call[p].pc = "done" => call[p].result = matchPattern(config, input[p])

\* C10 witness: one call has returned true while the other, on another input,
\* is inside the greedy loop
C10_Witness ==
    /\ call[1].pc = "done"
    /\ call[1].result = TRUE
    /\ call[2].pc = "loop"
    /\ input[1] # input[2]

\* the configuration cfg with REPEATABLE_SEQUENCES emptied, everything else kept
repeatablesEmptied(cfg) == [cfg EXCEPT !.REPEATABLE_SEQUENCES = <<>>]

\* C11 as stated, for every setting of the star flags: a string accepted once
\* REPEATABLE_SEQUENCES is emptied was accepted before, and it has a segmentation
\* in which every repeatable segment is empty.
C11_Original ==
    (done /\ config.REPEATABLE_SEQUENCES # <<>>
          /\ matchPattern(repeatablesEmptied(config), input[1]))
        => (result /\ Language(repeatablesEmptied(config), input[1]))

\* C11: with REPEATABLE_STAR true, a string that matchPattern accepts once
\* REPEATABLE_SEQUENCES is emptied was accepted before the change and has an
\* accepting segmentation in which the repeatable segment of every repetition is
\* empty; so a string whose every accepting segmentation consumes a character in a
\* repeatable segment is rejected after the change.
C11_EmptiedRepeatables ==
    (done /\ config.REPEATABLE_SEQUENCES # <<>> /\ config.REPEATABLE_STAR
          /\ matchPattern(repeatablesEmptied(config), input[1]))
        => (result /\ Language(repeatablesEmptied(config), input[1]))

\* "baab" is accepted with and without the repeatable tokens, "aabaa" was accepted
\* and is rejected once they are gone
C11_Witness ==
    /\ done /\ config = REGEX_CONFIG /\ result
    /\ input[1] = <<"a", "a", "b", "a", "a">>
    /\ ~matchPattern(repeatablesEmptied(config), input[1])
    /\ matchPattern(repeatablesEmptied(config), <<"b", "a", "a", "b">>)
    /\ matchPattern(config, <<"b", "a", "a", "b">>)

\* the test cases runTestSuite marks NEW 'ba' alternative, each expected to be valid
baAlternativeCases ==
    {<<"a", "a", "b", "a">>,
     <<"b", "a", "a", "b", "a">>,
     <<"a", "a", "b", "a", "a", "a">>}

\* C12: under the shipped configuration matchPattern returns true for "aaba",
\* "baaba" and "aabaaa", the strings runTestSuite expects to be valid.
C12_BaAlternativeAccepted ==
    (done /\ config = REGEX_CONFIG /\ input[1] \in baAlternativeCases) => result

\* one of the token collections of cfg holds the zero-length string
HasZeroLengthToken(cfg) == ~AllTokensNonEmpty(cfg)

\* C13: a configuration in which a token collection contains the zero-length
\* string is rejected as malformed before any matching is done: a call under it
\* runs no segment matcher and does not accept.
C13_ZeroLengthTokenRejected ==
    HasZeroLengthToken(config) => (~InMatcher(call[1]) /\ ~call[1].result)

(***************************************************************************)
(* Configurations edited as the EASY MODIFICATION GUIDE of the source      *)
(* invites: other non-empty literal tokens over the alphabet {a, b}.       *)
(***************************************************************************)
\* the tokens of one or two characters
tokenPool ==
    << <<"a">>, <<"b">>, <<"a", "a">>, <<"a", "b">>, <<"b", "a">>, <<"b", "b">> >>

\* the token collections of one token or of two different tokens
tokenCollections ==
    {<<tokenPool[i]>> : i \in 1..Len(tokenPool)}
        \cup {<<tokenPool[ij[1]], tokenPool[ij[2]]>> :
                ij \in {x \in (1..Len(tokenPool)) \X (1..Len(tokenPool)) : x[1] < x[2]}}

\* the shipped configuration with its three token collections replaced
tokenConfigurations ==
    {[REGEX_CONFIG EXCEPT !.REQUIRED_SEQUENCE = r, !.ALTERNATIVE_OPTIONS = t,
                          !.REPEATABLE_SEQUENCES = q] :
        r \in {<<tokenPool[i]>> : i \in 1..Len(tokenPool)} \cup {REGEX_CONFIG.REQUIRED_SEQUENCE},
        t \in tokenCollections, q \in tokenCollections}

InitTokens ==
    /\ config \in tokenConfigurations
    /\ \E s \in StringsUpTo(AB, MaxLenTokens) :
          input = [p \in Procs |-> IF p = 1 THEN s ELSE <<>>]
    /\ call = [p \in Procs |-> newCall]
    /\ demo = newDemo

\* one atomic matchPattern call under an edited configuration
SpecTokens == InitTokens /\ [][Next]_vars

\* s is a proper prefix of t
ProperPrefix(s, t) == Len(s) < Len(t) /\ SubSeq(t, 1, Len(s)) = s

\* no token of the collection is a proper prefix of another one
PrefixFree(tokens) == \A s, t \in Range(tokens) : ~ProperPrefix(s, t)

\* C14 as stated: for every configuration of non-empty literal tokens over the
\* alphabet, all three stars true, matchPattern(s) is true exactly when s is in
\* [(alphabet)*(r1+...)(t1+...)(q1+...)*]*.
C14_Original == done => (result = Language(config, input[1]))

\* C14: for every configuration of non-empty literal tokens over the alphabet,
\* all three stars true, matchPattern(s) true implies that s is in
\* [(alphabet)*(r1+...)(t1+...)(q1+...)*]*; when in each collection no token
\* is a proper prefix of another, matchPattern(s) is true exactly when s is in
\* that language.  Otherwise the longest-first choice can reject a string of the
\* language.
C14_GreedyLanguage ==
    done =>
        /\ result => Language(config, input[1])
        /\ (/\ PrefixFree(config.REQUIRED_SEQUENCE)
            /\ PrefixFree(config.ALTERNATIVE_OPTIONS)
            /\ PrefixFree(config.REPEATABLE_SEQUENCES))
              => (result = Language(config, input[1]))

\* an accepted string under required ab, alternatives a or bb, repeatables b or
\* aa: "baba" is (a+b)* = "b", then "ab", then "a"
C14_Witness ==
    /\ done /\ result
    /\ config.REQUIRED_SEQUENCE = << <<"a", "b">> >>
    /\ config.ALTERNATIVE_OPTIONS = << <<"a">>, <<"b", "b">> >>
    /\ config.REPEATABLE_SEQUENCES = << <<"b">>, <<"a", "a">> >>
    /\ input[1] = <<"b", "a", "b", "a">>

(***************************************************************************)
(* The demonstration script that runs when the file is loaded: four blocks *)
(* that save part of REGEX_CONFIG, change it, call matchPattern and put    *)
(* the saved values back.  demo.atLoad and demo.atBlockStart record the    *)
(* configuration at the start of the script and of the running block.      *)
(***************************************************************************)
\* REQUIRED_SEQUENCE in the other format the code accepts: a single string
stringFormat(cfg) ==
    IF isArray(cfg.REQUIRED_SEQUENCE) /\ Len(cfg.REQUIRED_SEQUENCE) = 1
    THEN [cfg EXCEPT !.REQUIRED_SEQUENCE = jsString(cfg.REQUIRED_SEQUENCE[1])]
    ELSE cfg

\* the configurations the script may find when it starts
demoConfigurations == Configs \cup {stringFormat(cfg) : cfg \in starConfigurations}

InitDemo ==
    /\ config \in demoConfigurations
    /\ input = [p \in Procs |-> <<>>]
    /\ call = [p \in Procs |-> newCall]
    /\ demo = newDemo

\* the calls before the first block, then const originalPatternStar = ...
DemoPatternStarSave ==
    /\ demo.pc = "load"
    /\ demo' = [demo EXCEPT !.pc = "patternStarSaved",
                            !.originalPatternStar = config.PATTERN_STAR,
                            !.atLoad = config, !.atBlockStart = config]
    /\ config' = configAfterSort(config)
    /\ UNCHANGED <<input, call>>

\* PATTERN_STAR = false and the three calls under it
DemoPatternStarOff ==
    /\ demo.pc = "patternStarSaved"
    /\ demo' = [demo EXCEPT !.pc = "patternStarOff"]
    /\ config' = configAfterSort([config EXCEPT !.PATTERN_STAR = FALSE])
    /\ UNCHANGED <<input, call>>

DemoPatternStarRestore ==
    /\ demo.pc = "patternStarOff"
    /\ demo' = [demo EXCEPT !.pc = "patternStarRestored"]
    /\ config' = [config EXCEPT !.PATTERN_STAR = demo.originalPatternStar]
    /\ UNCHANGED <<input, call>>

\* the call under the current format, then const originalRequired = ...
DemoRequiredSave ==
    /\ demo.pc = "patternStarRestored"
    /\ demo' = [demo EXCEPT !.pc = "requiredSaved",
                            !.originalRequired = config.REQUIRED_SEQUENCE,
                            !.atBlockStart = config]
    /\ config' = configAfterSort(config)
    /\ UNCHANGED <<input, call>>

\* REQUIRED_SEQUENCE = 'aa' and the call under it
DemoRequiredString ==
    /\ demo.pc = "requiredSaved"
    /\ demo' = [demo EXCEPT !.pc = "requiredString"]
    /\ config' = configAfterSort([config EXCEPT !.REQUIRED_SEQUENCE = jsString(<<"a", "a">>)])
    /\ UNCHANGED <<input, call>>

DemoRequiredRestore ==
    /\ demo.pc = "requiredString"
    /\ demo' = [demo EXCEPT !.pc = "requiredRestored"]
    /\ config' = [config EXCEPT !.REQUIRED_SEQUENCE = demo.originalRequired]
    /\ UNCHANGED <<input, call>>

\* const originalConfig = {...}: copies of the four token collections
DemoEmptySave ==
    /\ demo.pc = "requiredRestored"
    /\ demo' = [demo EXCEPT !.pc = "emptyTests", !.index = 0,
                            !.originalConfig =
                                [ALPHABET             |-> config.ALPHABET,
                                 REQUIRED_SEQUENCE    |-> config.REQUIRED_SEQUENCE,
                                 ALTERNATIVE_OPTIONS  |-> config.ALTERNATIVE_OPTIONS,
                                 REPEATABLE_SEQUENCES |-> config.REPEATABLE_SEQUENCES],
                            !.atBlockStart = config]
    /\ UNCHANGED <<config, input, call>>

\* the assignments of test n of the empty-array block
emptyArrayTest(cfg, n) ==
    CASE n = 1 -> [cfg EXCEPT !.ALPHABET = <<>>]
      [] n = 2 -> [cfg EXCEPT !.ALPHABET = <<"a", "b">>, !.REQUIRED_SEQUENCE = <<>>]
      [] n = 3 -> [cfg EXCEPT !.REQUIRED_SEQUENCE = << <<"a", "a">> >>,
                              !.ALTERNATIVE_OPTIONS = <<>>]
      [] n = 4 -> [cfg EXCEPT !.ALTERNATIVE_OPTIONS = << <<"b">> >>,
                              !.REPEATABLE_SEQUENCES = <<>>]
      [] n = 5 -> [cfg EXCEPT !.ALPHABET = <<>>, !.REQUIRED_SEQUENCE = <<>>,
                              !.ALTERNATIVE_OPTIONS = <<>>, !.REPEATABLE_SEQUENCES = <<>>]

\* the next test of the empty-array block: its assignments and its two calls
DemoEmptyTest ==
    /\ demo.pc = "emptyTests"
    /\ demo.index < 5
    /\ demo' = [demo EXCEPT !.index = @ + 1]
    /\ config' = configAfterSort(emptyArrayTest(config, demo.index + 1))
    /\ UNCHANGED <<input, call>>

\* mutant of restoreOriginalConfig: ALTERNATIVE_OPTIONS is not put back
restoreWithoutAlternatives(cfg, originalConfig) ==
    [cfg EXCEPT !.ALPHABET = originalConfig.ALPHABET,
                !.REQUIRED_SEQUENCE = originalConfig.REQUIRED_SEQUENCE,
                !.REPEATABLE_SEQUENCES = originalConfig.REPEATABLE_SEQUENCES]

\* the four assignments that end the empty-array block
restoreOriginalConfig(cfg, originalConfig) ==
    [cfg EXCEPT !.ALPHABET = originalConfig.ALPHABET,
                !.REQUIRED_SEQUENCE = originalConfig.REQUIRED_SEQUENCE,
                !.ALTERNATIVE_OPTIONS = originalConfig.ALTERNATIVE_OPTIONS,
                !.REPEATABLE_SEQUENCES = originalConfig.REPEATABLE_SEQUENCES]

DemoEmptyRestore ==
    /\ demo.pc = "emptyTests"
    /\ demo.index = 5
    /\ demo' = [demo EXCEPT !.pc = "originalConfigRestored"]
    /\ config' = restoreOriginalConfig(config, demo.originalConfig)
    /\ UNCHANGED <<input, call>>

\* the array starConfigurations of the last block, in its order
starConfigurationList ==
    [i \in 1..8 |-> [ALPHABET_STAR   |-> i <= 4,
                     REPEATABLE_STAR |-> i \in {1, 2, 5, 6},
                     PATTERN_STAR    |-> i % 2 = 1]]

\* REGEX_CONFIG.STAR_CONFIG = star
withStarConfig(cfg, star) ==
    [cfg EXCEPT !.ALPHABET_STAR = star.ALPHABET_STAR,
                !.REPEATABLE_STAR = star.REPEATABLE_STAR,
                !.PATTERN_STAR = star.PATTERN_STAR]

\* const originalStarConfig = {...}
DemoStarSave ==
    /\ demo.pc = "originalConfigRestored"
    /\ demo' = [demo EXCEPT !.pc = "starTests", !.index = 0,
                            !.originalStarConfig =
                                [ALPHABET_STAR   |-> config.ALPHABET_STAR,
                                 REPEATABLE_STAR |-> config.REPEATABLE_STAR,
                                 PATTERN_STAR    |-> config.PATTERN_STAR],
                            !.atBlockStart = config]
    /\ UNCHANGED <<config, input, call>>

\* one round of starConfigurations.forEach: the assignment and the five calls
DemoStarTest ==
    /\ demo.pc = "starTests"
    /\ demo.index < Len(starConfigurationList)
    /\ demo' = [demo EXCEPT !.index = @ + 1]
    /\ config' = configAfterSort(withStarConfig(config, starConfigurationList[demo.index + 1]))
    /\ UNCHANGED <<input, call>>

DemoStarRestore ==
    /\ demo.pc = "starTests"
    /\ demo.index = Len(starConfigurationList)
    /\ demo' = [demo EXCEPT !.pc = "done"]
    /\ config' = withStarConfig(config, demo.originalStarConfig)
    /\ UNCHANGED <<input, call>>

NextDemo ==
    \/ DemoPatternStarSave
    \/ DemoPatternStarOff
    \/ DemoPatternStarRestore
    \/ DemoRequiredSave
    \/ DemoRequiredString
    \/ DemoRequiredRestore
    \/ DemoEmptySave
    \/ DemoEmptyTest
    \/ DemoEmptyRestore
    \/ DemoStarSave
    \/ DemoStarTest
    \/ DemoStarRestore

\* the script from its first to its last statement
SpecDemo == InitDemo /\ [][NextDemo]_vars

\* C15: each block of the demonstration script puts the configuration back: when
\* a block has ended every field of REGEX_CONFIG has the value it had when the
\* block started, and after the whole script the configuration equals the one the
\* script found.
C15_ConfigurationRestored ==
    /\ demo.pc \in {"patternStarRestored", "requiredRestored", "originalConfigRestored", "done"}
          => config = demo.atBlockStart
    /\ demo.pc = "done" => config = demo.atLoad

\* the script has run through all eight star combinations on the shipped
\* configuration and has put it back
C15_Witness ==
    /\ demo.pc = "done"
    /\ demo.index = 8
    /\ demo.atLoad = REGEX_CONFIG
    /\ demo.originalConfig.ALTERNATIVE_OPTIONS = REGEX_CONFIG.ALTERNATIVE_OPTIONS
    /\ config = REGEX_CONFIG

(***************************************************************************)
(* REQUIRED_SEQUENCE configured in either format.                          *)
(***************************************************************************)
\* the shipped tokens with REQUIRED_SEQUENCE set to the string x, under every
\* STAR_CONFIG combination
stringFormatConfigurations ==
    {[cfg EXCEPT !.REQUIRED_SEQUENCE = jsString(tokenPool[i])] :
        cfg \in starConfigurations, i \in 1..Len(tokenPool)}

InitFormat ==
    /\ config \in stringFormatConfigurations
    /\ \E s \in StringsUpTo(AB, MaxLenFormat) :
          input = [p \in Procs |-> IF p = 1 THEN s ELSE <<>>]
    /\ call = [p \in Procs |-> newCall]
    /\ demo = newDemo

\* one atomic matchPattern call with REQUIRED_SEQUENCE given as a string
SpecFormat == InitFormat /\ [][Next]_vars

\* the configuration cfg with the string x of REQUIRED_SEQUENCE written as [x]
arrayFormat(cfg) == [cfg EXCEPT !.REQUIRED_SEQUENCE = <<stringValue(@)>>]

\* C16: for every input and every non-empty token x, matchPattern and
\* getMinPatternLength give the same result when REQUIRED_SEQUENCE is the string
\* x as when it is the one-element array [x].
C16_StringFormatAgrees ==
    done =>
        /\ ~isArray(config.REQUIRED_SEQUENCE)
        /\ isArray(arrayFormat(config).REQUIRED_SEQUENCE)
        /\ result = matchPattern(arrayFormat(config), input[1])
        /\ getMinPatternLength(config) = getMinPatternLength(arrayFormat(config))

\* "abab" is accepted with REQUIRED_SEQUENCE = 'ba' (free run "a", "ba", "b") as
\* it is with ['ba']
C16_Witness ==
    /\ done /\ result
    /\ config = [REGEX_CONFIG EXCEPT !.REQUIRED_SEQUENCE = jsString(<<"b", "a">>)]
    /\ input[1] = <<"a", "b", "a", "b">>
    /\ matchPattern(arrayFormat(config), input[1])

(***************************************************************************)
(* The functions of the engine applied on their own: call[1].start and     *)
(* call[1].end hold the arguments, call[1].ret or call[1].pos the value    *)
(* returned.                                                               *)
(***************************************************************************)
\* the strings over {a, b} that pass validateInput under cfg
FnInputs(cfg) == {s \in StringsUpTo(AB, MaxLenFn) : validateInput(cfg, s)}

InitFn ==
    /\ config \in Configs
    /\ \E s \in FnInputs(config) : input = [p \in Procs |-> IF p = 1 THEN s ELSE <<>>]
    /\ \E start \in 0..Len(input[1]) : \E end \in start..Len(input[1]) :
          call = [p \in Procs |->
                    IF p = 1 THEN [newCall EXCEPT !.pc = "apply", !.start = start, !.end = end]
                    ELSE newCall]
    /\ demo = newDemo

\* canMatchSinglePatternExactly(str, start, end)
ApplySingle ==
    /\ call[1].pc = "apply"
    /\ call' = [call EXCEPT ![1].pc = "singleApplied",
                            ![1].ret = canMatchSinglePatternExactly(
                                           config, input[1], call[1].start, call[1].end)]
    /\ config' = configAfterSort(config)
    /\ UNCHANGED <<input, demo>>

\* matchPatternsRecursively(str, startPos)
ApplyRecursive ==
    /\ call[1].pc = "apply"
    /\ call' = [call EXCEPT ![1].pc = "recursiveApplied",
                            ![1].ret = matchPatternsRecursively(config, input[1], call[1].start)]
    /\ config' = configAfterSort(config)
    /\ UNCHANGED <<input, demo>>

\* getMinPatternLength()
ApplyMinLength ==
    /\ call[1].pc = "apply"
    /\ call' = [call EXCEPT ![1].pc = "minLengthApplied",
                            ![1].pos = getMinPatternLength(config)]
    /\ UNCHANGED <<config, input, demo>>

NextFn == ApplySingle \/ ApplyRecursive \/ ApplyMinLength

\* one function applied to one argument list
SpecFn == InitFn /\ [][NextFn]_vars

\* C17: whenever canMatchSinglePatternExactly(str, start, end) is true, the slice
\* str[start, end) is an accepted alphabet segment, an accepted required
\* segment, an accepted alternative segment and an accepted repeatable segment
\* one after the other (start <= p1 <= p2 <= p3 <= end): nothing at or beyond end
\* is used and nothing of the slice is left over.
C17_SliceConsumedExactly ==
    (call[1].pc = "singleApplied" /\ call[1].ret)
        => LangInner(config, SubSeq(input[1], call[1].start + 1, call[1].end))

\* the cut points c = p0 < p1 < ... < pk = Len(str) given by the set cuts
CutPointsFrom(str, c, cuts) == {c, Len(str)} \cup cuts

\* Len(str) is reachable from c: some cut points split str[c, Len(str)) into
\* slices that canMatchSinglePatternExactly accepts (no slice when c = Len(str))
ReachableFrom(cfg, str, c) ==
    \E cuts \in SUBSET ((c + 1)..(Len(str) - 1)) :
        \A a \in CutPointsFrom(str, c, cuts) : \A b \in CutPointsFrom(str, c, cuts) :
            (a < b /\ ~\E m \in CutPointsFrom(str, c, cuts) : a < m /\ m < b)
                => canMatchSinglePatternExactly(cfg, str, a, b)

\* the memoised table: reach[c] for every cursor c, filled from the end of str
reachabilityTable(cfg, str) ==
    LET reach[c \in 0..Len(str)] ==
            IF c = Len(str) THEN TRUE
            ELSE \E e \in (c + 1)..Len(str) :
                    canMatchSinglePatternExactly(cfg, str, c, e) /\ reach[e]
    IN  reach

\* C18: matchPatternsRecursively(str, c) is true exactly when the length of str
\* is reachable from cursor c through cut points whose slices
\* canMatchSinglePatternExactly accepts, and the memoised reachability table
\* over cursor positions gives the same answer.
C18_SearchIsReachability ==
    call[1].pc = "recursiveApplied" =>
        /\ call[1].ret = ReachableFrom(config, input[1], call[1].start)
        /\ call[1].ret = reachabilityTable(config, input[1])[call[1].start]

\* without required tokens and without the star on the alphabet part, "abab" is
\* not one slice; the search reaches the end from cursor 0 through the cut at 2
C18_Witness ==
    /\ call[1].pc = "recursiveApplied"
    /\ call[1].ret
    /\ config = [REGEX_CONFIG EXCEPT !.REQUIRED_SEQUENCE = <<>>, !.ALPHABET_STAR = FALSE]
    /\ input[1] = <<"a", "b", "a", "b">>
    /\ call[1].start = 0
    /\ ~canMatchSinglePatternExactly(config, input[1], 0, 4)
    /\ canMatchSinglePatternExactly(config, input[1], 0, 2)
    /\ canMatchSinglePatternExactly(config, input[1], 2, 4)

\* the cursors of the active calls of matchPatternsRecursively, outermost first
cursors(c) == [i \in 1..Len(c.stack) |-> c.stack[i].startPos]

\* C19: in every state of the whole-string search every cursor is between 0 and
\* the input length, every recursive call is made with a cursor that exceeds its
\* caller's by at least the minimum inner-pattern length (so strictly), and
\* success arises only in a call whose cursor equals the input length.
C19_CursorInvariant ==
    /\ [](\A i \in 1..Len(call[1].stack) :
            /\ 0 <= cursors(call[1])[i]
            /\ cursors(call[1])[i] <= Len(input[1])
            /\ i > 1 => /\ cursors(call[1])[i] > cursors(call[1])[i - 1]
                        /\ cursors(call[1])[i] >=
                              cursors(call[1])[i - 1] + getMinPatternLength(config))
    /\ [][(call[1].pc = "recursive" /\ call'[1].pc = "recReturn" /\ call'[1].ret)
            => top(call[1]).startPos = Len(input[1])]_vars

\* under the shipped configuration the call made for "aab" at cursor 3, one
\* slice after its caller's cursor 0, reports success
C19_Witness ==
    /\ config = REGEX_CONFIG
    /\ input[1] = <<"a", "a", "b">>
    /\ call[1].pc = "recReturn"
    /\ call[1].ret
    /\ cursors(call[1]) = <<0, 3>>

\* the length of the shortest token of a collection, 0 when there is none
shortestLength(tokens) ==
    IF tokens = <<>> THEN 0
    ELSE CHOOSE n \in 0..maxTokenLength(tokens) :
            /\ \E t \in Range(tokens) : Len(t) = n
            /\ \A t \in Range(tokens) : Len(t) >= n

\* C20: getMinPatternLength returns max(1, A + R + T + Q): A is 0 if
\* ALPHABET_STAR is true, else 1; R is the length of the shortest required token
\* (0 if none); T is the length of the shortest alternative token (0 if none); Q
\* is 0 if REPEATABLE_STAR is true or no repeatable token is configured, else the
\* length of the shortest repeatable token.  For the default configuration the
\* value is 3.
C20_MinPatternLength ==
    call[1].pc = "minLengthApplied" =>
        LET A == IF config.ALPHABET_STAR THEN 0 ELSE 1
            R == shortestLength(config.REQUIRED_SEQUENCE)
            T == shortestLength(config.ALTERNATIVE_OPTIONS)
            Q == IF config.REPEATABLE_STAR \/ config.REPEATABLE_SEQUENCES = <<>> THEN 0
                 ELSE shortestLength(config.REPEATABLE_SEQUENCES)
        IN  /\ call[1].pos = (IF A + R + T + Q > 1 THEN A + R + T + Q ELSE 1)
            /\ config = REGEX_CONFIG => call[1].pos = 3

\* the floor is what is returned once every collection is empty and the stars
\* are kept: the sum is 0, the value 1
C20_Witness ==
    /\ call[1].pc = "minLengthApplied"
    /\ call[1].pos = 1
    /\ config.REQUIRED_SEQUENCE = <<>>
    /\ config.ALTERNATIVE_OPTIONS = <<>>
    /\ config.REPEATABLE_SEQUENCES = <<>>
    /\ config.ALPHABET_STAR

\* C21: no slice shorter than the minimum inner-pattern length is accepted as a
\* repetition: the whole-string search proposes only end positions at or after
\* cursor + minimum, canMatchSinglePatternExactly returns false for a shorter
\* slice, a cursor whose non-empty remainder is shorter than the minimum fails,
\* and every accepted non-empty string is at least as long as the minimum.
C21_NoShortSlice ==
    LET c == call[1]
        minLength == getMinPatternLength(config)
    IN  /\ (c.pc = "single" /\ c.stack # <<>>) => c.end >= top(c).startPos + minLength
        /\ (c.pc = "singleReturn" /\ c.end - c.start < minLength) => ~c.ret
        /\ (c.pc = "recReturn" /\ top(c).startPos < Len(input[1])
                /\ Len(input[1]) - top(c).startPos < minLength) => ~c.ret
        /\ (c.pc = "done" /\ c.result /\ input[1] # <<>>) => Len(input[1]) >= minLength

\* under the shipped configuration "aaba" is cut after "aab"; the call at cursor
\* 3 has one character left, fewer than the minimum 3, and fails
C21_Witness ==
    /\ config = REGEX_CONFIG
    /\ input[1] = <<"a", "a", "b", "a">>
    /\ call[1].pc = "recReturn"
    /\ ~call[1].ret
    /\ cursors(call[1]) = <<0, 3>>

\* cfg has no required and no alternative token and keeps both segment stars
Degenerate(cfg) ==
    /\ cfg.REQUIRED_SEQUENCE = <<>>
    /\ cfg.ALTERNATIVE_OPTIONS = <<>>
    /\ cfg.ALPHABET_STAR
    /\ cfg.REPEATABLE_STAR

\* C22: in the degenerate configuration (no required and no alternative token,
\* both segment stars true) every non-empty string over the alphabet is accepted
\* by canMatchSinglePatternExactly over its whole range: the alphabet segment
\* may take the whole slice.
C22_DegenerateAcceptsAll ==
    (/\ call[1].pc = "singleApplied"
     /\ Degenerate(config)
     /\ call[1].start = 0
     /\ call[1].end = Len(input[1])
     /\ Len(input[1]) > 0)
        => call[1].ret

(***************************************************************************)
(* The segment matchers applied on their own, under configurations whose   *)
(* collections hold tokens that are prefixes of one another.               *)
(***************************************************************************)
\* the shipped configuration with one token collection replaced
segmentConfigurations ==
    {[REGEX_CONFIG EXCEPT !.REQUIRED_SEQUENCE = r] : r \in tokenCollections}
        \cup {[REGEX_CONFIG EXCEPT !.ALTERNATIVE_OPTIONS = t] : t \in tokenCollections}
        \cup {[REGEX_CONFIG EXCEPT !.REPEATABLE_SEQUENCES = q, !.REPEATABLE_STAR = y] :
                q \in tokenCollections \cup {<<>>}, y \in BOOLEAN}
        \cup zeroLengthTokenConfigurations
        \cup emptyArrayConfigurations

InitSegment ==
    /\ config \in segmentConfigurations
    /\ \E s \in {w \in StringsUpTo(AB, MaxLenSegment) : validateInput(config, w)} :
          input = [p \in Procs |-> IF p = 1 THEN s ELSE <<>>]
    /\ \E start \in 0..Len(input[1]) : \E end \in start..Len(input[1]) :
          call = [p \in Procs |->
                    IF p = 1 THEN [newCall EXCEPT !.pc = "apply", !.start = start, !.end = end]
                    ELSE newCall]
    /\ demo = newDemo

\* canMatchRequiredSequence(str, pos) with pos = call[1].start
ApplyRequired ==
    /\ call[1].pc = "apply"
    /\ call' = [call EXCEPT ![1].pc = "requiredApplied",
                            ![1].pos = canMatchRequiredSequence(config, input[1], call[1].start)]
    /\ config' = configAfterSort(config)
    /\ UNCHANGED <<input, demo>>

\* canMatchAlternatives(str, pos) with pos = call[1].start
ApplyAlternatives ==
    /\ call[1].pc = "apply"
    /\ call' = [call EXCEPT ![1].pc = "alternativesApplied",
                            ![1].pos = canMatchAlternatives(config, input[1], call[1].start)]
    /\ config' = configAfterSort(config)
    /\ UNCHANGED <<input, demo>>

\* canMatchRepeatableSequences(str, start, end)
ApplyRepeatable ==
    /\ call[1].pc = "apply"
    /\ call' = [call EXCEPT ![1].pc = "repeatableApplied",
                            ![1].ret = canMatchRepeatableSequences(
                                           config, input[1], call[1].start, call[1].end)]
    /\ config' = configAfterSort(config)
    /\ UNCHANGED <<input, demo>>

NextSegment == ApplyRequired \/ ApplyAlternatives \/ ApplyRepeatable \/ ApplySingle

\* one segment matcher, or the matcher of one repetition that calls them, applied to
\* one argument list
SpecSegment == InitSegment /\ [][NextSegment]_vars

\* the tokens of the collection that occur literally in str at pos
OccurringAt(tokens, str, pos) ==
    {t \in Range(tokens) :
        pos + Len(t) <= Len(str) /\ SubSeq(str, pos + 1, pos + Len(t)) = t}

\* what C23 says a token matcher returns
LongestOccurring(tokens, str, pos) ==
    IF tokens = <<>> THEN pos
    ELSE IF OccurringAt(tokens, str, pos) = {} THEN -1
    ELSE pos + (CHOOSE n \in {Len(t) : t \in OccurringAt(tokens, str, pos)} :
                    \A t \in OccurringAt(tokens, str, pos) : Len(t) <= n)

\* C23: for a collection of non-empty tokens canMatchRequiredSequence and
\* canMatchAlternatives return pos plus the length of the longest configured
\* token that occurs literally at pos, -1 when no configured token occurs at pos,
\* and pos unchanged when the collection is empty.
C23_LongestTokenOrSentinel ==
    /\ (call[1].pc = "requiredApplied" /\ \A t \in Range(config.REQUIRED_SEQUENCE) : t # <<>>)
          => call[1].pos = LongestOccurring(config.REQUIRED_SEQUENCE, input[1], call[1].start)
    /\ (call[1].pc = "alternativesApplied"
            /\ \A t \in Range(config.ALTERNATIVE_OPTIONS) : t # <<>>)
          => call[1].pos = LongestOccurring(config.ALTERNATIVE_OPTIONS, input[1], call[1].start)

\* with alternatives a and ab both occurring at position 1 of "aab", the longer
\* one is taken
C23_Witness ==
    /\ call[1].pc = "alternativesApplied"
    /\ config.ALTERNATIVE_OPTIONS = << <<"a">>, <<"a", "b">> >>
    /\ input[1] = <<"a", "a", "b">>
    /\ call[1].start = 1
    /\ call[1].pos = 3

\* the slice str[start, end)
Slice(str, start, end) == SubSeq(str, start + 1, end)

\* C24: with REPEATABLE_STAR false and a non-empty REPEATABLE_SEQUENCES,
\* canMatchRepeatableSequences(str, start, end) is true exactly when some
\* configured token t has start + |t| = end and str[start, end) = t; in
\* particular, the tokens being non-empty, an empty slice is rejected and so is
\* a slice made of two or more tokens that is not itself a token.
C24_ExactlyOneToken ==
    (/\ call[1].pc = "repeatableApplied"
     /\ ~config.REPEATABLE_STAR
     /\ config.REPEATABLE_SEQUENCES # <<>>)
        => LET start == call[1].start
               end == call[1].end
               tokens == config.REPEATABLE_SEQUENCES
           IN  /\ call[1].ret = (\E t \in Range(tokens) :
                                    /\ start + Len(t) = end
                                    /\ Slice(input[1], start, end) = t)
               /\ (\A t \in Range(tokens) : t # <<>>) =>
                    /\ start = end => ~call[1].ret
                    /\ (/\ LangStarOf(tokens, Slice(input[1], start, end))
                        /\ Slice(input[1], start, end) \notin Range(tokens))
                          => ~call[1].ret

\* without the star the slice "aabb" of the shipped repeatable tokens aa, bb is
\* two tokens and is rejected
C24_Witness ==
    /\ call[1].pc = "repeatableApplied"
    /\ config = [REGEX_CONFIG EXCEPT !.REPEATABLE_STAR = FALSE]
    /\ input[1] = <<"a", "a", "b", "b">>
    /\ call[1].start = 0
    /\ call[1].end = 4
    /\ ~call[1].ret
    /\ canMatchRepeatableSequences(config, input[1], 0, 2)

\* the tokens of the collection that occur in str at pos and end at or before end
FittingAt(tokens, str, pos, end) ==
    {t \in OccurringAt(tokens, str, pos) : pos + Len(t) <= end}

RECURSIVE GreedyScan(_, _, _, _)
\* the greedy scan of C25 from pos: take the longest fitting token, never undo a
\* choice; true when the scan arrives at end, false when no token fits
GreedyScan(tokens, str, pos, end) ==
    IF pos = end THEN TRUE
    ELSE IF FittingAt(tokens, str, pos, end) = {} THEN FALSE
    ELSE LET longest == CHOOSE t \in FittingAt(tokens, str, pos, end) :
                            \A u \in FittingAt(tokens, str, pos, end) : Len(u) <= Len(t)
         IN  GreedyScan(tokens, str, pos + Len(longest), end)

\* C25: with REPEATABLE_STAR true, non-empty tokens and start <= end,
\* canMatchRepeatableSequences(str, start, end) is true exactly when the greedy
\* scan (at each position the longest configured token that occurs there and
\* fits before end, no choice undone) arrives at a position equal to end.
C25_GreedyScan ==
    (/\ call[1].pc = "repeatableApplied"
     /\ config.REPEATABLE_STAR
     /\ config.REPEATABLE_SEQUENCES # <<>>
     /\ \A t \in Range(config.REPEATABLE_SEQUENCES) : t # <<>>
     /\ call[1].start <= call[1].end)
        => call[1].ret = GreedyScan(config.REPEATABLE_SEQUENCES, input[1],
                                    call[1].start, call[1].end)

\* with repeatable tokens a and ab the scan of "abab" takes ab twice; taking a
\* first would be stuck at the b
C25_Witness ==
    /\ call[1].pc = "repeatableApplied"
    /\ config.REPEATABLE_STAR
    /\ config.REPEATABLE_SEQUENCES = << <<"a">>, <<"a", "b">> >>
    /\ input[1] = <<"a", "b", "a", "b">>
    /\ call[1].start = 0
    /\ call[1].end = 4
    /\ call[1].ret

\* C26: with REPEATABLE_SEQUENCES empty canMatchRepeatableSequences(str, start,
\* end) is true exactly when start equals end, whatever REPEATABLE_STAR is; so
\* canMatchSinglePatternExactly accepts a slice only when, for some alphabet
\* length it tries, the alphabet, required and alternative parts end exactly at
\* the end of the slice.
C26_EmptyRepeatables ==
    config.REPEATABLE_SEQUENCES = <<>> =>
        /\ call[1].pc = "repeatableApplied" => call[1].ret = (call[1].start = call[1].end)
        /\ (call[1].pc = "singleApplied" /\ call[1].ret) =>
              \E alphabetLength \in
                    Range(alphabetLengthRange(config, call[1].end - call[1].start)) :
                  afterAlternativesFrom(config, input[1], call[1].start, alphabetLength)
                      = call[1].end

\* without repeatable tokens and without their star, the slice "aab" of "aaba"
\* is accepted: aa and b end at 3
C26_Witness ==
    /\ call[1].pc = "singleApplied"
    /\ call[1].ret
    /\ config = [REGEX_CONFIG EXCEPT !.REPEATABLE_SEQUENCES = <<>>, !.REPEATABLE_STAR = FALSE]
    /\ input[1] = <<"a", "a", "b", "a">>
    /\ call[1].start = 0
    /\ call[1].end = 3
    /\ ~canMatchRepeatableSequences(config, input[1], 3, 4)

\* C27: even when REPEATABLE_SEQUENCES contains the zero-length string the
\* greedy loop of canMatchRepeatableSequences cannot run forever: every
\* iteration either increases pos by at least 1 (the token the loop takes as
\* matched is never the zero-length one) or returns false, and pos, which starts
\* at start, is at most end after an iteration; so the loop ends within
\* end - start iterations.
C27_LoopAdvances ==
    /\ [][call[1].pc = "loop" =>
            \/ /\ call'[1].pc = "loop"
               /\ call'[1].pos >= call[1].pos + 1
            \/ /\ call'[1].pc = "repReturn"
               /\ call[1].pos < call[1].end => ~call'[1].ret]_vars
    /\ [](call[1].pc = "loop" =>
            /\ call[1].repStart <= call[1].pos
            /\ call[1].pos > call[1].repStart => call[1].pos <= call[1].end
            /\ LET matchedSequence ==
                       repeatableAt(config, input[1], call[1].pos, call[1].end)
               IN  (call[1].pos < call[1].end /\ truthy(matchedSequence))
                      => advance(call[1].pos, matchedSequence) >= call[1].pos + 1)

\* with the zero-length string among the repeatable tokens, the loop at the
\* last character of "aaba" finds only '' and returns false
C27_Witness ==
    /\ config = [REGEX_CONFIG EXCEPT
                    !.REPEATABLE_SEQUENCES = << <<>>, <<"a", "a">>, <<"b", "b">> >>]
    /\ input[1] = <<"a", "a", "b", "a">>
    /\ call[1].pc = "repReturn"
    /\ ~call[1].ret
    /\ call[1].pos = 3
    /\ call[1].end = 4
    /\ repeatableAt(config, input[1], 3, 4) = <<>>

\* the configuration cfg with whole-pattern repetition enabled and every other
\* setting equal
withPatternStar(cfg) == [cfg EXCEPT !.PATTERN_STAR = TRUE]

\* C28: enabling whole-pattern repetition never removes an accepted string: if
\* matchPattern(s) is true with PATTERN_STAR false, it is also true with
\* PATTERN_STAR true and all other settings equal.
C28_StarKeepsAccepted ==
    (done /\ ~config.PATTERN_STAR /\ result) =>
        matchPattern(withPatternStar(config), input[1])

\* "baabbb" is accepted as exactly one pattern and stays accepted with the star
C28_Witness ==
    /\ done
    /\ result
    /\ config = [REGEX_CONFIG EXCEPT !.PATTERN_STAR = FALSE]
    /\ input[1] = <<"b", "a", "a", "b", "b", "b">>
    /\ matchPattern(withPatternStar(config), input[1])

(***************************************************************************)
(* Three calls of matchPattern: on u, on v and on u followed by v.         *)
(***************************************************************************)
\* the shipped tokens with whole-pattern repetition, under each setting of the
\* two segment stars
concatConfigurations == {c \in starConfigurations : c.PATTERN_STAR}

InitConcat ==
    /\ config \in concatConfigurations
    /\ \E u \in StringsUpTo(AB, MaxLenConcat) : \E v \in StringsUpTo(AB, MaxLenConcat) :
          input = [p \in Procs |-> IF p = 1 THEN u ELSE v]
    /\ call = [p \in Procs |-> newCall]
    /\ demo = newDemo

\* matchPattern(v), v the second string
MatchSecond ==
    /\ call[2].pc = "matchPattern"
    /\ call' = [call EXCEPT ![2].pc = "done",
                            ![2].result = matchPattern(config, input[2])]
    /\ config' = configAfterSort(config)
    /\ UNCHANGED <<input, demo>>

\* matchPattern(u + v), once both strings have been matched on their own
MatchConcatenation ==
    /\ call[1].pc = "done"
    /\ call[2].pc = "done"
    /\ call' = [call EXCEPT ![1].pc = "concatenated",
                            ![1].ret = matchPattern(config, input[1] \o input[2])]
    /\ config' = configAfterSort(config)
    /\ UNCHANGED <<input, demo>>

NextConcat == MatchCall \/ MatchSecond \/ MatchConcatenation

SpecConcat == InitConcat /\ [][NextConcat]_vars

\* C29: with PATTERN_STAR true and the default tokens, under any setting of the
\* two segment stars, the accepted set is closed under concatenation: when
\* matchPattern(u) and matchPattern(v) are true, matchPattern(u followed by v)
\* is true.
C29_ClosedUnderConcatenation ==
    (call[1].pc = "concatenated" /\ call[1].result /\ call[2].result) => call[1].ret

\* without the alphabet star "baab" and "aaaab" are each one pattern, and
\* "baabaaaab" is accepted as the two of them
C29_Witness ==
    /\ call[1].pc = "concatenated"
    /\ ~config.ALPHABET_STAR
    /\ input[1] = <<"b", "a", "a", "b">>
    /\ input[2] = <<"a", "a", "a", "a", "b">>
    /\ call[1].result
    /\ call[2].result
    /\ call[1].ret
    /\ ~canMatchSinglePatternExactly(config, input[1] \o input[2], 0, 9)

(***************************************************************************)
(* The tracing variant of the matcher (its console output is not modelled). *)
(***************************************************************************)
\* the alphabet lengths the for loop of debugCanMatchSinglePatternExactly tries
debugAlphabetLengths(cfg, patternLength) ==
    LET minLength == getMinPatternLength(cfg)
        maxAlphabetLength == patternLength - minLength
    IN  0..maxAlphabetLength

debugCanMatchSinglePatternExactly(cfg, str, start, end) ==
    LET patternLength == end - start
        minLength == getMinPatternLength(cfg)
    IN  IF patternLength < minLength THEN FALSE
        ELSE \E alphabetLength \in debugAlphabetLengths(cfg, patternLength) :
                /\ canMatchAlphabetStar(cfg, str, start, alphabetLength)
                /\ LET afterRequired ==
                           canMatchRequiredSequence(cfg, str, start + alphabetLength)
                   IN  /\ afterRequired # -1
                       /\ LET afterAlternatives ==
                                  canMatchAlternatives(cfg, str, afterRequired)
                          IN  /\ afterAlternatives # -1
                              /\ canMatchRepeatableSequences(
                                     cfg, str, afterAlternatives, end)

RECURSIVE debugMatchPatternsRecursively(_, _, _)
debugMatchPatternsRecursively(cfg, str, startPos) ==
    IF startPos >= Len(str) THEN TRUE
    ELSE LET minPatternLength == getMinPatternLength(cfg)
             possibleEnds == arrayFrom(Len(str) - startPos - minPatternLength + 1,
                                       startPos + minPatternLength)
         IN  \E endPos \in Range(possibleEnds) :
                /\ debugCanMatchSinglePatternExactly(cfg, str, startPos, endPos)
                /\ debugMatchPatternsRecursively(cfg, str, endPos)

debugPatternMatch(cfg, inputStr) ==
    IF Len(inputStr) = 0 THEN TRUE
    ELSE IF ~validateInput(cfg, inputStr) THEN FALSE
    ELSE debugMatchPatternsRecursively(cfg, inputStr, 0)

\* debugPatternMatch on the string matchPattern has just been called with
DebugCall ==
    /\ call[1].pc = "done"
    /\ call' = [call EXCEPT ![1].pc = "debugged",
                            ![1].ret = debugPatternMatch(config, input[1])]
    /\ config' = configAfterSort(config)
    /\ UNCHANGED <<input, demo>>

NextDebug == MatchCall \/ DebugCall

SpecDebug == Init /\ [][NextDebug]_vars

\* C30: for every configuration with PATTERN_STAR true and every non-empty input
\* over the alphabet, debugPatternMatch returns the same boolean as matchPattern.
C30_DebugAgrees ==
    (/\ call[1].pc = "debugged"
     /\ config.PATTERN_STAR
     /\ Len(input[1]) > 0
     /\ validateInput(config, input[1]))
        => call[1].ret = call[1].result
====
